---- MODULE Spec2Model ----
(***************************************************************************)
(* Protocol client of sanctum-sdk-go: length-prefixed JSON-RPC over one    *)
(* connection (Client.call), the Ed25519 challenge-response handshake      *)
(* (Client.Authenticate), a credential operation (Client.Retrieve) and the *)
(* translation of error payloads into VaultError.                          *)
(*                                                                         *)
(* Goroutines calling into one Client are the processes Procs.  The        *)
(* connection is two byte streams, modelled at the granularity of the I/O  *)
(* calls the code makes: a frame is a header chunk (binary.Write /         *)
(* binary.Read of the length) followed by a payload chunk (w.Write /       *)
(* io.ReadFull).  The vault server is an external collaborator: it answers *)
(* complete request frames in order, with any body and any id, header and  *)
(* payload in separate steps, or never.                                    *)
(***************************************************************************)
EXTENDS Integers, Sequences, FiniteSets, TLC

\* Bounds of the model.
NumProcs == 2
MaxCalls == 3

Procs == 1..NumProcs
NoProc == 0

-----------------------------------------------------------------------------
(* JSON values, as far as the code inspects them.  A json.RawMessage that  *)
(* is absent from its enclosing object is Nil.                             *)

Nil == [t |-> "nil"]
Str(s) == [t |-> "str", v |-> s]
Bool(b) == [t |-> "bool", v |-> b]
Num(n) == [t |-> "num", v |-> n]
Obj(f) == [t |-> "obj", v |-> f]
Null == [t |-> "null"]
Arr(a) == [t |-> "arr", v |-> a]

HasKey(j, k) == j.t = "obj" /\ k \in DOMAIN j.v

\* A string field of a struct decoded by encoding/json from object j:
\* absent or null leaves the zero value, a string is copied, anything
\* else is an UnmarshalTypeError.
StringFieldOK(j, k) == HasKey(j, k) => j.v[k].t \in {"str", "null"}
StringField(j, k) == IF HasKey(j, k) /\ j.v[k].t = "str" THEN j.v[k].v ELSE ""

BoolFieldOK(j, k) == HasKey(j, k) => j.v[k].t \in {"bool", "null"}
BoolField(j, k) == IF HasKey(j, k) /\ j.v[k].t = "bool" THEN j.v[k].v ELSE FALSE

\* A json.RawMessage field keeps the raw value, whatever its type.
RawField(j, k) == IF HasKey(j, k) THEN j.v[k] ELSE Nil

\* json.Unmarshal into a struct accepts an object or null; empty input
\* (a nil RawMessage) and any other JSON type are errors.
StructOK(j) == j.t \in {"obj", "null"}

\* json.Unmarshal into a slice accepts an array or null.
SliceOK(j) == j.t \in {"arr", "null"}

-----------------------------------------------------------------------------
(* Errors.                                                                 *)

NoErr == [type |-> "nil"]
NetError(what) == [type |-> "net", what |-> what]
Wrapped(prefix, inner) == [type |-> "fmt", prefix |-> prefix, inner |-> inner]
JsonError == [type |-> "json"]
ProtocolError(msg) == [type |-> "ProtocolError", Message |-> msg]

\* Error codes returned by the vault.
ErrAuthFailed == "AUTH_FAILED"
ErrAccessDenied == "ACCESS_DENIED"
ErrCredentialNotFound == "CREDENTIAL_NOT_FOUND"
ErrVaultLocked == "VAULT_LOCKED"
ErrLeaseExpired == "LEASE_EXPIRED"
ErrRateLimited == "RATE_LIMITED"
ErrSessionExpired == "SESSION_EXPIRED"

WellKnownCodes == {ErrAuthFailed, ErrAccessDenied, ErrCredentialNotFound,
                   ErrVaultLocked, ErrLeaseExpired, ErrRateLimited,
                   ErrSessionExpired}

VaultErrorStringKeys == {"code", "message", "detail", "suggestion", "docs_url"}

\* json.Unmarshal(resp.Error, &vaultErr)
VaultErrorOK(j) == StructOK(j) /\ \A k \in VaultErrorStringKeys : StringFieldOK(j, k)

\* (mutant: a code outside the well-known ones is replaced)
VaultError_KnownCodesOnly(j) ==
    [type |-> "VaultError",
     Code |-> IF StringField(j, "code") \in WellKnownCodes
              THEN StringField(j, "code") ELSE "UNKNOWN",
     Message |-> StringField(j, "message"),
     Detail |-> StringField(j, "detail"),
     Suggestion |-> StringField(j, "suggestion"),
     DocsURL |-> StringField(j, "docs_url"),
     Context |-> RawField(j, "context")]

VaultError(j) ==
    [type |-> "VaultError",
     Code |-> StringField(j, "code"),
     Message |-> StringField(j, "message"),
     Detail |-> StringField(j, "detail"),
     Suggestion |-> StringField(j, "suggestion"),
     DocsURL |-> StringField(j, "docs_url"),
     Context |-> RawField(j, "context")]

-----------------------------------------------------------------------------
(* encoding/hex and ed25519, as Authenticate uses them.  A string is a     *)
(* sequence of characters, a byte string a sequence of 0..255.             *)

HexDigits == <<"0", "1", "2", "3", "4", "5", "6", "7",
               "8", "9", "a", "b", "c", "d", "e", "f">>
HexUpper == <<"A", "B", "C", "D", "E", "F">>

\* value of one hex character, -1 when it is none
fromHexChar(c) ==
    IF \E i \in 1..16 : HexDigits[i] = c
    THEN (CHOOSE i \in 1..16 : HexDigits[i] = c) - 1
    ELSE IF \E i \in 1..6 : HexUpper[i] = c
         THEN (CHOOSE i \in 1..6 : HexUpper[i] = c) + 9
         ELSE -1

\* hex.DecodeString: an invalid character or an odd length is an error
DecodeStringOK(s) ==
    /\ Len(s) % 2 = 0
    /\ \A i \in 1..Len(s) : fromHexChar(s[i]) >= 0

DecodeString(s) ==
    [i \in 1..(Len(s) \div 2) |->
        16 * fromHexChar(s[2 * i - 1]) + fromHexChar(s[2 * i])]

\* hex.EncodeToString
EncodeToString(b) ==
    [i \in 1..(2 * Len(b)) |->
        IF i % 2 = 1 THEN HexDigits[(b[(i + 1) \div 2] \div 16) + 1]
                     ELSE HexDigits[(b[i \div 2] % 16) + 1]]

\* Key pairs: the private key of goroutine p and the public key matching a
\* private key.  A signature names the public key it verifies under and
\* the message signed.
PrivateKeyOf(p) == 16 + p
PublicKeyOf(priv) == 255 - priv
\* (mutant: the challenge is signed under another key)
Sign_OtherKey(priv, msg) == <<PublicKeyOf(priv + 1)>> \o msg
Sign(priv, msg) == <<PublicKeyOf(priv)>> \o msg
Verify(pub, msg, sig) == sig = <<pub>> \o msg

AgentName == "agent"

-----------------------------------------------------------------------------
(* Requests and responses.                                                 *)

\* RpcRequest; ID 0 until call allocates it
RpcRequest(id, method, params) == [ID |-> id, Method |-> method, Params |-> params]

NoReq == RpcRequest(0, "", Nil)

ChallengeParams == Obj([agent |-> Str(AgentName)])
VerifyParams(signature) ==
    Obj([agent |-> Str(AgentName), signature |-> Str(EncodeToString(signature))])
RetrieveParams(path, ttl) == Obj([path |-> Str(path), ttl |-> Num(ttl)])
ListParams == Obj([k \in {} |-> Nil])
ReleaseLeaseParams(leaseID) == Obj([lease_id |-> Str(leaseID)])
UseParams(path, operation, params) ==
    Obj([path |-> Str(path), operation |-> Str(operation), params |-> params])

\* RpcResponse; forReq is not on the wire: it records the request the server
\* was answering when it produced the frame.
RpcResponse(id, result, error, forReq) ==
    [ID |-> id, Result |-> result, Error |-> error, forReq |-> forReq]

NoResp == RpcResponse(0, Nil, Nil, 0)

\* The challenge the server issues for the request with the given id.
ChallengeFor(id) == <<"0", HexDigits[(id % 16) + 1]>>
BadHex == <<"z", "z">>

ErrorPayloads ==
    {Obj([code |-> Str(ErrCredentialNotFound), message |-> Str("no such path")]),
     Obj([code |-> Num(42), message |-> Str("bad")])}

\* The bodies <<result, error>> the server may answer a request with.
Bodies(req) ==
    {<<Nil, e>> : e \in ErrorPayloads} \cup
    CASE req.Method = "auth.challenge" ->
           {<<Obj([challenge |-> Str(ChallengeFor(req.ID))]), Nil>>,
            <<Obj([challenge |-> Str(BadHex)]), Nil>>}
      [] req.Method = "auth.verify" ->
           {<<Obj([authenticated |-> Bool(TRUE), session_id |-> Str("s")]), Nil>>,
            <<Obj([authenticated |-> Bool(FALSE)]), Nil>>,
            <<Obj([session_id |-> Str("s")]), Nil>>}
      [] req.Method = "credential.list" ->
           {<<Arr(<<Obj([path |-> Str("openai/api_key")])>>), Nil>>}
      [] req.Method = "lease.release" ->
           {<<Obj([released |-> Bool(TRUE)]), Nil>>}
      [] req.Method = "credential.use" ->
           {<<Obj([success |-> Bool(TRUE), output |-> Obj([signature |-> Str("c2ln")])]),
              Nil>>}
      [] OTHER ->
           {<<Obj([path |-> Str("db/primary"), value |-> Str("secret"),
                   lease_id |-> Str("L1"), ttl |-> Num(60)]), Nil>>}

\* An id no request carries.
BadID == 0

\* What the server may answer a request with: any of the bodies under the
\* id of the request, or a result under another id.
ServerResponses(req) ==
    {RpcResponse(req.ID, b[1], b[2], req.ID) : b \in Bodies(req)} \cup
    {RpcResponse(BadID, b[1], b[2], req.ID) : b \in {c \in Bodies(req) : c[2] = Nil}}

-----------------------------------------------------------------------------
(* State.                                                                  *)

VARIABLES
    nextID,         \* Client.nextID
    mu,             \* Client.mu: the goroutine holding it, or NoProc
    connDeadline,   \* deadline set on Client.conn: the goroutine whose
                    \* context deadline it is, or NoProc for none
    closed,         \* Client.conn has been closed
    out,            \* chunks written to the connection that the server has
                    \* not read yet, oldest first
    inbuf,          \* chunks the server sent that no read has consumed yet;
                    \* a payload chunk names the request it answers, and what
                    \* it holds is drawn when it is read
    srvPending,     \* request to which the server sent the header of a
                    \* response, and not yet the payload
    wireIDs,        \* ids of the request frames begun on the connection so far
    pc,             \* where each goroutine is
    op,             \* the public operation each goroutine is in
    ctx,            \* kind of context it passed: "none", "deadline", "cancel"
    ctxDone,        \* that context's deadline has passed / it was cancelled
    doneWaiting,    \* ... and did so while the call in progress was waiting
                    \* for c.mu, held by another call
    req,            \* req of the call in progress
    callRes,        \* what the last call returned, and the frame it consumed
    ret,            \* what the last public operation returned
    sent,           \* methods of the request frames the operation has written
    challengeBytes, \* Authenticate's challengeBytes
    attempt,        \* first request id of the current Authenticate, the id
                    \* of the request whose call returned its challenge, and
                    \* whether it follows a failed Authenticate of the goroutine
    mapperIn,       \* a response frame handed to the error mapping of call
    mapperOut,      \* what call returns for it
    apiIn,          \* an operation, the method of its call and the response
                    \* frame that call read
    apiOut,         \* what the operation does with it
    encIn,          \* writeFrame: the length of the encoded request, and
                    \* where the transport fails, if it does
    encOut,         \* writeFrame: its progress, what it wrote, its error
    decIn,          \* readFrame: the incoming byte stream
    decOut,         \* readFrame: its progress, what it consumed, its result
    vault,          \* the Vault objects made so far, and Vault.ptr of each
    ffi,            \* the FFI layer: how often each handle has been freed
    closeCalls,     \* how often Close has been called on each Vault
    vret            \* the last operation of the local binding: what it
                    \* returned and the calls it made into the FFI layer

vars == <<nextID, mu, connDeadline, closed, out, inbuf, srvPending, wireIDs,
          pc, op, ctx, ctxDone, doneWaiting, req, callRes, ret, sent,
          challengeBytes, attempt, mapperIn, mapperOut, apiIn, apiOut,
          encIn, encOut, decIn, decOut, vault, ffi, closeCalls, vret>>

mapperVars == <<mapperIn, mapperOut>>
apiVars == <<apiIn, apiOut>>
clientVars == <<nextID, mu, connDeadline, closed, out, inbuf, srvPending, wireIDs, pc,
                op, ctx, ctxDone, doneWaiting, req, callRes, ret, sent, challengeBytes,
                attempt>>
\* the variables of the sequential parts checked on their own
frameVars == <<encIn, encOut, decIn, decOut>>
vaultVars == <<vault, ffi, closeCalls, vret>>
pureVars == <<mapperVars, apiVars, frameVars, vaultVars>>
connVars == <<connDeadline, closed, out, inbuf, wireIDs>>
srvVars == <<srvPending, pureVars>>
ctxVars == <<ctx, ctxDone, doneWaiting>>
\* what the return of a call changes besides the lock and the deadline
opVars == <<nextID, pc, req, callRes, ret, challengeBytes, attempt>>

CtxKinds == {"none", "deadline", "cancel"}

\* <<result, err>> of call, with the id of the request the call sent and the
\* response frame it consumed
CallResult(result, err, id, resp) ==
    [Result |-> result, Err |-> err, reqID |-> id, resp |-> resp]
NoCallResult == CallResult(Nil, NoErr, 0, NoResp)

\* return value of a public operation
OpResult(val, err) == [Val |-> val, Err |-> err]
NoOpResult == OpResult(Nil, NoErr)

NoAttempt == [start |-> 0, challengeReq |-> 0, retry |-> FALSE]

NoOutcome == [Result |-> Nil, Err |-> [type |-> "none"]]

\* NewClient: the Client and its callers before any operation
InitClient ==
    /\ nextID = 1
    /\ mu = NoProc
    /\ connDeadline = NoProc
    /\ closed = FALSE
    /\ out = <<>>
    /\ inbuf = <<>>
    /\ wireIDs = {}
    /\ srvPending = NoReq
    /\ pc = [p \in Procs |-> "idle"]
    /\ op = [p \in Procs |-> ""]
    /\ ctx = [p \in Procs |-> "none"]
    /\ ctxDone = [p \in Procs |-> FALSE]
    /\ doneWaiting = [p \in Procs |-> FALSE]
    /\ req = [p \in Procs |-> NoReq]
    /\ callRes = [p \in Procs |-> NoCallResult]
    /\ ret = [p \in Procs |-> NoOpResult]
    /\ sent = [p \in Procs |-> <<>>]
    /\ challengeBytes = [p \in Procs |-> <<>>]
    /\ attempt = [p \in Procs |-> NoAttempt]

NoApiIn == [operation |-> "", method |-> "", resp |-> NoResp]

IdleMapper == mapperIn = NoResp /\ mapperOut = NoOutcome
NoApiOut == [returns |-> FALSE, Val |-> Nil, Err |-> [type |-> "none"], bytes |-> <<>>]
IdleApi == apiIn = NoApiIn /\ apiOut = NoApiOut

NoEncIn == [len |-> <<>>, fail |-> "none"]
NoEncOut == [stage |-> "idle", wire |-> <<>>, err |-> NoErr]
NoDecIn == [hdr |-> <<>>, body |-> "none"]
NoDecOut == [stage |-> "idle", hdrRead |-> 0, payRead |-> "none", parsed |-> FALSE,
             resp |-> FALSE, err |-> NoErr]
IdleFrame == encIn = NoEncIn /\ encOut = NoEncOut /\ decIn = NoDecIn /\ decOut = NoDecOut

\* the nil handle
NilPtr == 0
NumVaults == 2
Vaults == 1..NumVaults
MaxCloses == 2

NoVault == [made |-> FALSE, ptr |-> NilPtr]
NoVaultReturn == [op |-> "", v |-> 0, afterClose |-> FALSE, calls |-> <<>>,
                  bytes |-> <<>>, str |-> "", err |-> NoErr, panics |-> FALSE]
IdleVault ==
    /\ vault = [i \in Vaults |-> NoVault]
    /\ ffi = [h \in Vaults |-> 0]
    /\ closeCalls = [i \in Vaults |-> 0]
    /\ vret = NoVaultReturn

Init == InitClient /\ IdleMapper /\ IdleApi /\ IdleFrame /\ IdleVault

-----------------------------------------------------------------------------
(* The public operations around their calls.                               *)

\* What a public operation does when one of its calls has returned: it
\* returns <<val, err>> to its caller, or (Authenticate) goes on to
\* auth.verify with the challenge bytes it decoded.
Returns(val, err) == [returns |-> TRUE, Val |-> val, Err |-> err, bytes |-> <<>>]
GoesOn(bytes) == [returns |-> FALSE, Val |-> Nil, Err |-> NoErr, bytes |-> bytes]

\* json.Unmarshal(result, &challenge) into authChallenge
AuthChallengeOK(j) == StructOK(j) /\ StringFieldOK(j, "challenge")
ChallengeField(j) ==
    IF HasKey(j, "challenge") /\ j.v.challenge.t = "str" THEN j.v.challenge.v ELSE <<>>

\* (mutant: the error of hex.DecodeString is dropped, and what was decoded
\* before the bad character is signed)
AuthenticateAfterChallenge_NoHexCheck(r) ==
    IF r.Err # NoErr
    THEN Returns(Nil, Wrapped("auth challenge", r.Err))
    ELSE IF ~AuthChallengeOK(r.Result)
    THEN Returns(Nil, Wrapped("parse challenge", JsonError))
    ELSE IF ~DecodeStringOK(ChallengeField(r.Result))
    THEN GoesOn(<<>>)
    ELSE GoesOn(DecodeString(ChallengeField(r.Result)))

\* Authenticate, from the return of the auth.challenge call up to the
\* auth.verify call: parse the result, hex-decode the challenge.
AuthenticateAfterChallenge(r) ==
    IF r.Err # NoErr
    THEN Returns(Nil, Wrapped("auth challenge", r.Err))
    ELSE IF ~AuthChallengeOK(r.Result)
    THEN Returns(Nil, Wrapped("parse challenge", JsonError))
    ELSE IF ~DecodeStringOK(ChallengeField(r.Result))
    THEN Returns(Nil, Wrapped("decode challenge hex", [type |-> "hex"]))
    ELSE GoesOn(DecodeString(ChallengeField(r.Result)))

\* json.Unmarshal(verifyResult, &auth) into authResult
AuthResultOK(j) ==
    StructOK(j) /\ BoolFieldOK(j, "authenticated") /\ StringFieldOK(j, "session_id")

\* (mutant: the authenticated flag is not looked at)
AuthenticateAfterVerify_NoFlagCheck(r) ==
    IF r.Err # NoErr
    THEN Returns(Nil, Wrapped("auth verify", r.Err))
    ELSE IF ~AuthResultOK(r.Result)
    THEN Returns(Nil, Wrapped("parse auth result", JsonError))
    ELSE Returns(Nil, NoErr)

\* (mutant: a failed auth.verify is sent again)
AuthenticateAfterVerify_Resend(r) ==
    IF r.Err # NoErr
    THEN GoesOn(<<>>)
    ELSE IF ~AuthResultOK(r.Result)
    THEN Returns(Nil, Wrapped("parse auth result", JsonError))
    ELSE IF ~BoolField(r.Result, "authenticated")
    THEN Returns(Nil, Wrapped("authentication rejected by server", NoErr))
    ELSE Returns(Nil, NoErr)

\* Authenticate, from the return of the auth.verify call
AuthenticateAfterVerify(r) ==
    IF r.Err # NoErr
    THEN Returns(Nil, Wrapped("auth verify", r.Err))
    ELSE IF ~AuthResultOK(r.Result)
    THEN Returns(Nil, Wrapped("parse auth result", JsonError))
    ELSE IF ~BoolField(r.Result, "authenticated")
    THEN Returns(Nil, Wrapped("authentication rejected by server", NoErr))
    ELSE Returns(Nil, NoErr)

\* json.Unmarshal(result, &cred) into Credential
CredentialOK(j) ==
    /\ StructOK(j)
    /\ StringFieldOK(j, "path") /\ StringFieldOK(j, "lease_id")
    /\ HasKey(j, "ttl") => j.v.ttl.t \in {"num", "null"}

Credential(j) ==
    [Path |-> StringField(j, "path"),
     Value |-> RawField(j, "value"),
     LeaseID |-> StringField(j, "lease_id"),
     TTL |-> IF HasKey(j, "ttl") /\ j.v.ttl.t = "num" THEN j.v.ttl.v ELSE 0]

\* Retrieve, from the return of its call
RetrieveAfterCall(r) ==
    IF r.Err # NoErr
    THEN Returns(Nil, r.Err)
    ELSE IF ~CredentialOK(r.Result)
    THEN Returns(Nil, Wrapped("parse credential", JsonError))
    ELSE Returns(Credential(r.Result), NoErr)

\* json.Unmarshal(result, &creds) into []CredentialInfo
CredentialInfoOK(j) ==
    /\ StructOK(j)
    /\ StringFieldOK(j, "path") /\ StringFieldOK(j, "type")
    /\ StringFieldOK(j, "description")

CredentialInfo(j) ==
    [Path |-> StringField(j, "path"),
     CredentialType |-> StringField(j, "type"),
     Description |-> StringField(j, "description")]

CredentialInfosOK(j) ==
    SliceOK(j) /\ (j.t = "arr" => \A i \in 1..Len(j.v) : CredentialInfoOK(j.v[i]))

\* (mutant: the entries are returned last first)
CredentialInfos_Reversed(j) ==
    [Creds |-> IF j.t = "arr"
               THEN [i \in 1..Len(j.v) |-> CredentialInfo(j.v[Len(j.v) + 1 - i])]
               ELSE <<>>]

CredentialInfos(j) ==
    [Creds |-> IF j.t = "arr" THEN [i \in 1..Len(j.v) |-> CredentialInfo(j.v[i])]
               ELSE <<>>]

\* List, from the return of its call
ListAfterCall(r) ==
    IF r.Err # NoErr
    THEN Returns(Nil, r.Err)
    ELSE IF ~CredentialInfosOK(r.Result)
    THEN Returns(Nil, Wrapped("parse credential list", JsonError))
    ELSE Returns(CredentialInfos(r.Result), NoErr)

\* ReleaseLease: the result of its call is dropped, the error returned
ReleaseLeaseAfterCall(r) == Returns(Nil, r.Err)

\* json.Unmarshal(result, &ur) into UseResult
UseResultOK(j) == StructOK(j) /\ BoolFieldOK(j, "success")

\* (mutant: the whole result object is kept as the output)
UseResult_WholeResult(j) ==
    [Success |-> BoolField(j, "success"), Output |-> j]

UseResult(j) ==
    [Success |-> BoolField(j, "success"), Output |-> RawField(j, "output")]

\* Use, from the return of its call
UseAfterCall(r) ==
    IF r.Err # NoErr
    THEN Returns(Nil, r.Err)
    ELSE IF ~UseResultOK(r.Result)
    THEN Returns(Nil, Wrapped("parse use result", JsonError))
    ELSE Returns(UseResult(r.Result), NoErr)

AfterCall(operation, method, r) ==
    IF operation = "Retrieve" THEN RetrieveAfterCall(r)
    ELSE IF operation = "List" THEN ListAfterCall(r)
    ELSE IF operation = "ReleaseLease" THEN ReleaseLeaseAfterCall(r)
    ELSE IF operation = "Use" THEN UseAfterCall(r)
    ELSE IF method = "auth.challenge" THEN AuthenticateAfterChallenge(r)
    ELSE AuthenticateAfterVerify(r)

-----------------------------------------------------------------------------
(* Client.call                                                             *)

RECURSIVE SumOver(_, _)
SumOver(f, S) ==
    IF S = {} THEN 0
    ELSE LET x == CHOOSE y \in S : TRUE IN f[x] + SumOver(f, S \ {x})

\* Number of request ids goroutine p may still allocate in the operation it
\* is in; the model starts an operation only while MaxCalls allows all of
\* its calls.
CallsAhead(p) ==
    IF pc[p] \notin {"idle", "done"} /\ req[p].Method = "auth.challenge" THEN 1 ELSE 0

CallsReserved == (nextID - 1) + SumOver([p \in Procs |-> CallsAhead(p)], Procs)

\* (mutant: the counter is read but not advanced)
Add1_NoIncrement(n) == n

\* c.nextID.Add(1): the new value of the counter.  The counter is an
\* atomic.Uint64; it wraps after 2^64 allocations, far beyond MaxCalls, so
\* the addition is modelled without the wrap.
Add1(n) == n + 1

\* The entry of call: the request gets the id c.nextID.Add(1) - 1, the value
\* of the counter before the addition, then the goroutine goes for the lock.
EnterCall(p, method, params) ==
    /\ nextID' = Add1(nextID)
    /\ req' = [req EXCEPT ![p] = RpcRequest(nextID, method, params)]
    /\ pc' = [pc EXCEPT ![p] = "lock"]

\* The deadline set on the connection has passed.
TimedOut == connDeadline # NoProc /\ ctxDone[connDeadline]

\* (mutant: the deadline is removed only when the call succeeds)
ReturnFromCall_DeadlineKept(p, result, err, resp, deadlineDeferred) ==
    LET r == CallResult(result, err, req[p].ID, resp)
        o == AfterCall(op[p], req[p].Method, r)
    IN /\ callRes' = [callRes EXCEPT ![p] = r]
       /\ connDeadline' = IF deadlineDeferred /\ ~closed /\ err = NoErr
                              THEN NoProc ELSE connDeadline
       /\ mu' = NoProc
       /\ IF o.returns
          THEN /\ ret' = [ret EXCEPT ![p] = OpResult(o.Val, o.Err)]
               /\ pc' = [pc EXCEPT ![p] = "done"]
               /\ ctx' = [ctx EXCEPT ![p] = "none"]
               /\ ctxDone' = [ctxDone EXCEPT ![p] = FALSE]
               /\ doneWaiting' = [doneWaiting EXCEPT ![p] = FALSE]
               /\ UNCHANGED <<nextID, req, challengeBytes, attempt>>
          ELSE /\ UNCHANGED <<ctx, ctxDone>>
               /\ doneWaiting' = [doneWaiting EXCEPT ![p] = FALSE]
               /\ challengeBytes' = [challengeBytes EXCEPT ![p] = o.bytes]
               /\ attempt' = [attempt EXCEPT ![p].challengeReq = req[p].ID]
               /\ EnterCall(p, "auth.verify",
                            VerifyParams(Sign(PrivateKeyOf(p), o.bytes)))
               /\ ret' = ret

\* (mutant: a call that fails returns without the Unlock)
ReturnFromCall_LockKept(p, result, err, resp, deadlineDeferred) ==
    LET r == CallResult(result, err, req[p].ID, resp)
        o == AfterCall(op[p], req[p].Method, r)
    IN /\ callRes' = [callRes EXCEPT ![p] = r]
       /\ connDeadline' = IF deadlineDeferred /\ ~closed THEN NoProc ELSE connDeadline
       /\ mu' = IF err = NoErr THEN NoProc ELSE p
       /\ IF o.returns
          THEN /\ ret' = [ret EXCEPT ![p] = OpResult(o.Val, o.Err)]
               /\ pc' = [pc EXCEPT ![p] = "done"]
               /\ ctx' = [ctx EXCEPT ![p] = "none"]
               /\ ctxDone' = [ctxDone EXCEPT ![p] = FALSE]
               /\ doneWaiting' = [doneWaiting EXCEPT ![p] = FALSE]
               /\ UNCHANGED <<nextID, req, challengeBytes, attempt>>
          ELSE /\ UNCHANGED <<ctx, ctxDone>>
               /\ doneWaiting' = [doneWaiting EXCEPT ![p] = FALSE]
               /\ challengeBytes' = [challengeBytes EXCEPT ![p] = o.bytes]
               /\ attempt' = [attempt EXCEPT ![p].challengeReq = req[p].ID]
               /\ EnterCall(p, "auth.verify",
                            VerifyParams(Sign(PrivateKeyOf(p), o.bytes)))
               /\ ret' = ret

\* A return of call after the lock was taken, and what the operation does
\* with it up to its return or to the entry of its next call.  The deferred
\* calls run: the SetDeadline(time.Time{}), registered only once a deadline
\* was installed, before the Unlock.
ReturnFromCall(p, result, err, resp, deadlineDeferred) ==
    LET r == CallResult(result, err, req[p].ID, resp)
        o == AfterCall(op[p], req[p].Method, r)
    IN /\ callRes' = [callRes EXCEPT ![p] = r]
       /\ connDeadline' = IF deadlineDeferred /\ ~closed THEN NoProc ELSE connDeadline
       /\ mu' = NoProc
       /\ IF o.returns
          THEN /\ ret' = [ret EXCEPT ![p] = OpResult(o.Val, o.Err)]
               /\ pc' = [pc EXCEPT ![p] = "done"]
               /\ ctx' = [ctx EXCEPT ![p] = "none"]
               /\ ctxDone' = [ctxDone EXCEPT ![p] = FALSE]
               /\ doneWaiting' = [doneWaiting EXCEPT ![p] = FALSE]
               /\ UNCHANGED <<nextID, req, challengeBytes, attempt>>
          ELSE /\ UNCHANGED <<ctx, ctxDone>>
               /\ doneWaiting' = [doneWaiting EXCEPT ![p] = FALSE]
               /\ challengeBytes' = [challengeBytes EXCEPT ![p] = o.bytes]
               /\ attempt' = [attempt EXCEPT ![p].challengeReq = req[p].ID]
               /\ EnterCall(p, "auth.verify",
                            VerifyParams(Sign(PrivateKeyOf(p), o.bytes)))
               /\ ret' = ret

\* (mutant: the mutex guards the write of the request only)
MutexFree_WhileReading == IF mu = NoProc THEN TRUE ELSE pc[mu] \in {"rhdr", "rpay"}

\* (mutant: the exchange is not guarded by the mutex)
MutexFree_Unguarded == TRUE

\* c.mu.Lock() returns only when no goroutine holds the mutex.
MutexFree == mu = NoProc

\* c.mu.Lock(), and the deadline of the context set on the connection:
\*   if deadline, ok := ctx.Deadline(); ok { c.conn.SetDeadline(deadline) ... }
Lock(p) ==
    /\ pc[p] = "lock"
    /\ MutexFree
    /\ IF ctx[p] = "deadline" /\ closed
       THEN ReturnFromCall(p, Nil, NetError("closed"), NoResp, FALSE)
       ELSE /\ mu' = p
            /\ connDeadline' = IF ctx[p] = "deadline" THEN p ELSE connDeadline
            /\ pc' = [pc EXCEPT ![p] = "whdr"]
            /\ UNCHANGED <<nextID, req, callRes, ret, challengeBytes, attempt,
                           ctxVars>>
    /\ UNCHANGED <<closed, out, inbuf, wireIDs, srvVars, op, sent>>

Chunk(part, by, frame) == [part |-> part, by |-> by, frame |-> frame]

\* One Write on the connection by writeFrame: it fails, writing nothing,
\* on a closed connection and when the connection's deadline has passed.
WriteChunk(p, part, what, next) ==
    /\ IF closed \/ TimedOut
       THEN /\ ReturnFromCall(p, Nil,
                   Wrapped(what, NetError(IF closed THEN "closed" ELSE "timeout")),
                   NoResp, ctx[p] = "deadline")
            /\ UNCHANGED <<out, wireIDs, sent>>
       ELSE /\ out' = Append(out, Chunk(part, p, req[p]))
            /\ wireIDs' = IF part = "hdr" THEN wireIDs \cup {req[p].ID} ELSE wireIDs
            /\ sent' = IF part = "pay" THEN [sent EXCEPT ![p] = Append(@, req[p].Method)]
                                       ELSE sent
            /\ pc' = [pc EXCEPT ![p] = next]
            /\ UNCHANGED <<mu, connDeadline, nextID, req, callRes, ret,
                           challengeBytes, attempt, ctxVars>>
    /\ UNCHANGED <<closed, inbuf, srvVars, op>>

\* writeFrame: binary.Write(w, binary.BigEndian, length)
WriteHeader(p) ==
    /\ pc[p] = "whdr"
    /\ WriteChunk(p, "hdr", "write length", "wpay")

\* writeFrame: w.Write(payload)
WritePayload(p) ==
    /\ pc[p] = "wpay"
    /\ WriteChunk(p, "pay", "write payload", "rhdr")

\* readFrame: binary.Read(r, binary.BigEndian, &length) and the size check.
\* It blocks while nothing has arrived.  On a stream that is not at a frame
\* boundary the four bytes read are bytes of a JSON text, which as a length
\* exceed maxFrameSize; whether bytes of that payload remain afterwards
\* depends on its length.
ReadHeader(p) ==
    /\ pc[p] = "rhdr"
    /\ \/ /\ closed \/ TimedOut
          /\ ReturnFromCall(p, Nil,
                 Wrapped("read length", NetError(IF closed THEN "closed" ELSE "timeout")),
                 NoResp, ctx[p] = "deadline")
          /\ inbuf' = inbuf
       \/ /\ ~closed /\ ~TimedOut
          /\ inbuf # <<>>
          /\ IF Head(inbuf).part = "hdr"
             THEN /\ inbuf' = Tail(inbuf)
                  /\ pc' = [pc EXCEPT ![p] = "rpay"]
                  /\ UNCHANGED <<mu, connDeadline, nextID, req, callRes, ret,
                                 challengeBytes, attempt, ctxVars>>
             ELSE /\ \/ inbuf' = Tail(inbuf)
                     \/ inbuf' = <<Chunk("junk", NoProc, NoReq)>> \o Tail(inbuf)
                  /\ ReturnFromCall(p, Nil, ProtocolError("frame too large"),
                                    NoResp, ctx[p] = "deadline")
    /\ UNCHANGED <<closed, out, wireIDs, srvVars, op, sent>>

\* (mutant: a response that carries a result is a success)
CallOutcome_ResultFirst(resp) ==
    IF resp.Result # Nil
    THEN [Result |-> resp.Result, Err |-> NoErr]
    ELSE IF resp.Error = Nil
    THEN [Result |-> Nil, Err |-> NoErr]
    ELSE IF VaultErrorOK(resp.Error)
    THEN [Result |-> Nil, Err |-> VaultError(resp.Error)]
    ELSE [Result |-> Nil, Err |-> ProtocolError("failed to parse error response")]

\* call, after readFrame returned resp:
\*   if resp.Error != nil { json.Unmarshal(resp.Error, &vaultErr) ... }
\*   return resp.Result, nil
CallOutcome(resp) ==
    IF resp.Error # Nil
    THEN IF VaultErrorOK(resp.Error)
         THEN [Result |-> Nil, Err |-> VaultError(resp.Error)]
         ELSE [Result |-> Nil, Err |-> ProtocolError("failed to parse error response")]
    ELSE [Result |-> resp.Result, Err |-> NoErr]

\* readFrame: io.ReadFull(r, payload), json.Unmarshal(payload, &resp), and
\* the rest of call.
ReadPayload(p) ==
    /\ pc[p] = "rpay"
    /\ \/ /\ closed \/ TimedOut
          /\ ReturnFromCall(p, Nil,
                 Wrapped("read payload", NetError(IF closed THEN "closed" ELSE "timeout")),
                 NoResp, ctx[p] = "deadline")
          /\ inbuf' = inbuf
       \/ /\ ~closed /\ ~TimedOut
          /\ inbuf # <<>>
          /\ inbuf' = Tail(inbuf)
          /\ \E resp \in ServerResponses(Head(inbuf).frame) :
                LET r == CallOutcome(resp)
                IN ReturnFromCall(p, r.Result, r.Err, resp, ctx[p] = "deadline")
    /\ UNCHANGED <<closed, out, wireIDs, srvVars, op, sent>>

-----------------------------------------------------------------------------
(* Entry of the public operations.                                         *)

\* A goroutine enters a public operation from outside the client.
CanBegin(p, calls) ==
    /\ pc[p] \in {"idle", "done"}
    /\ CallsReserved + calls <= MaxCalls

BeginOp(p, operation) ==
    /\ \E k \in CtxKinds : ctx' = [ctx EXCEPT ![p] = k]
    /\ op' = [op EXCEPT ![p] = operation]
    /\ ctxDone' = [ctxDone EXCEPT ![p] = FALSE]
    /\ doneWaiting' = [doneWaiting EXCEPT ![p] = FALSE]
    /\ callRes' = [callRes EXCEPT ![p] = NoCallResult]
    /\ ret' = [ret EXCEPT ![p] = NoOpResult]
    /\ sent' = [sent EXCEPT ![p] = <<>>]

\* The last operation of goroutine p was an Authenticate that failed.
FailedAuthenticate(p) ==
    pc[p] = "done" /\ op[p] = "Authenticate" /\ ret[p].Err # NoErr

\* (mutant: a failed Authenticate leaves its challenge behind, and the next
\* one resumes from it at auth.verify)
BeginAuthenticate_Resume(p) ==
    /\ BeginOp(p, "Authenticate")
    /\ IF FailedAuthenticate(p) /\ challengeBytes[p] # <<>>
       THEN /\ CanBegin(p, 1)
            /\ challengeBytes' = challengeBytes
            /\ attempt' = [attempt EXCEPT ![p].start = nextID, ![p].retry = TRUE]
            /\ EnterCall(p, "auth.verify",
                         VerifyParams(Sign(PrivateKeyOf(p), challengeBytes[p])))
       ELSE /\ CanBegin(p, 2)
            /\ challengeBytes' = [challengeBytes EXCEPT ![p] = <<>>]
            /\ attempt' = [attempt EXCEPT ![p] =
                              [start |-> nextID, challengeReq |-> 0,
                               retry |-> FailedAuthenticate(p)]]
            /\ EnterCall(p, "auth.challenge", ChallengeParams)
    /\ UNCHANGED <<mu, connVars, srvVars>>

\* Authenticate, up to the lock of its first call:
\*   c.call(ctx, "auth.challenge", map[string]string{"agent": agentName})
BeginAuthenticate(p) ==
    /\ CanBegin(p, 2)
    /\ BeginOp(p, "Authenticate")
    /\ challengeBytes' = [challengeBytes EXCEPT ![p] = <<>>]
    /\ attempt' = [attempt EXCEPT ![p] =
                      [start |-> nextID, challengeReq |-> 0, retry |-> FailedAuthenticate(p)]]
    /\ EnterCall(p, "auth.challenge", ChallengeParams)
    /\ UNCHANGED <<mu, connVars, srvVars>>

\* Retrieve, up to the lock of its call
BeginRetrieve(p) ==
    /\ CanBegin(p, 1)
    /\ BeginOp(p, "Retrieve")
    /\ EnterCall(p, "credential.retrieve", RetrieveParams("db/primary", 300))
    /\ UNCHANGED <<mu, connVars, srvVars, challengeBytes, attempt>>

\* List, up to the lock of its call
BeginList(p) ==
    /\ CanBegin(p, 1)
    /\ BeginOp(p, "List")
    /\ EnterCall(p, "credential.list", ListParams)
    /\ UNCHANGED <<mu, connVars, srvVars, challengeBytes, attempt>>

\* ReleaseLease, up to the lock of its call
BeginReleaseLease(p) ==
    /\ CanBegin(p, 1)
    /\ BeginOp(p, "ReleaseLease")
    /\ EnterCall(p, "lease.release", ReleaseLeaseParams("L1"))
    /\ UNCHANGED <<mu, connVars, srvVars, challengeBytes, attempt>>

\* Use, up to the lock of its call
BeginUse(p) ==
    /\ CanBegin(p, 1)
    /\ BeginOp(p, "Use")
    /\ EnterCall(p, "credential.use",
                 UseParams("db/primary", "sign_payload", Obj([data |-> Str("aGVsbG8")])))
    /\ UNCHANGED <<mu, connVars, srvVars, challengeBytes, attempt>>

\* Client.Close
Close ==
    /\ ~closed
    /\ closed' = TRUE
    /\ UNCHANGED <<mu, connDeadline, out, inbuf, wireIDs, srvVars, op, ctxVars,
                   sent, opVars>>

-----------------------------------------------------------------------------
(* Environment: time, the callers' contexts, the vault server.             *)

InOperation(p) == pc[p] \notin {"idle", "done"}

\* Goroutine p is blocked in c.mu.Lock() while another call holds the mutex.
Waiting(p) == pc[p] = "lock" /\ mu # NoProc

\* The deadline of the context passes while the operation is running.
DeadlinePasses(p) ==
    /\ InOperation(p)
    /\ ctx[p] = "deadline"
    /\ ~ctxDone[p]
    /\ ctxDone' = [ctxDone EXCEPT ![p] = TRUE]
    /\ doneWaiting' = [doneWaiting EXCEPT ![p] = Waiting(p)]
    /\ UNCHANGED <<mu, connVars, srvVars, op, ctx, sent, opVars>>

\* The caller cancels the context while the operation is running.
Cancel(p) ==
    /\ InOperation(p)
    /\ ctx[p] = "cancel"
    /\ ~ctxDone[p]
    /\ ctxDone' = [ctxDone EXCEPT ![p] = TRUE]
    /\ doneWaiting' = [doneWaiting EXCEPT ![p] = Waiting(p)]
    /\ UNCHANGED <<mu, connVars, srvVars, op, ctx, sent, opVars>>

\* The oldest bytes the server has not read are one complete request frame.
CompleteFrame ==
    /\ Len(out) >= 2
    /\ out[1].part = "hdr"
    /\ out[2].part = "pay"
    /\ out[2].frame = out[1].frame

\* The server reads a request and sends the header of a response to it.
ServerSendHeader ==
    /\ ~closed
    /\ srvPending = NoReq
    /\ CompleteFrame
    /\ srvPending' = out[1].frame
    /\ inbuf' = Append(inbuf, Chunk("hdr", NoProc, NoReq))
    /\ out' = Tail(Tail(out))
    /\ UNCHANGED <<mu, connDeadline, closed, wireIDs, op, ctxVars, sent, opVars,
                   pureVars>>

\* The server sends the payload of the response it started.
ServerSendPayload ==
    /\ ~closed
    /\ srvPending # NoReq
    /\ inbuf' = Append(inbuf, Chunk("pay", NoProc, srvPending))
    /\ srvPending' = NoReq
    /\ UNCHANGED <<mu, connDeadline, closed, out, wireIDs, op, ctxVars, sent,
                   opVars, pureVars>>

-----------------------------------------------------------------------------

ClientStep(p) ==
    \/ BeginAuthenticate(p)
    \/ BeginRetrieve(p)
    \/ Lock(p)
    \/ WriteHeader(p)
    \/ WritePayload(p)
    \/ ReadHeader(p)
    \/ ReadPayload(p)

Next ==
    \/ \E p \in Procs : ClientStep(p)
    \/ \E p \in Procs : DeadlinePasses(p)
    \/ \E p \in Procs : Cancel(p)
    \/ Close
    \/ ServerSendHeader
    \/ ServerSendPayload

Spec == Init /\ [][Next]_vars

-----------------------------------------------------------------------------
(* Concurrent callers whose contexts never end and whose connection stays  *)
(* open, against a server that answers each request once.                  *)

NextQuiet ==
    \/ \E p \in Procs : ClientStep(p)
    \/ ServerSendHeader
    \/ ServerSendPayload

SpecQuiet == Init /\ [][NextQuiet]_vars

-----------------------------------------------------------------------------
(* One caller going through all five public operations, one after the      *)
(* other, under the same environment.                                      *)

NumSolo == 1
Solo == 1..NumSolo

SoloStep(p) ==
    \/ ClientStep(p)
    \/ BeginList(p)
    \/ BeginReleaseLease(p)
    \/ BeginUse(p)

NextSolo ==
    \/ \E p \in Solo : SoloStep(p)
    \/ \E p \in Solo : DeadlinePasses(p)
    \/ \E p \in Solo : Cancel(p)
    \/ Close
    \/ ServerSendHeader
    \/ ServerSendPayload

SpecSolo == Init /\ [][NextSolo]_vars

-----------------------------------------------------------------------------
(* The error mapping of call on its own: the response frames it may be     *)
(* handed, and the one step that applies it.                               *)

UnknownCode == "QUOTA_EXCEEDED"

DiagnosticKeys == {"detail", "suggestion", "docs_url", "context"}

PayloadValue(k, code) ==
    CASE k = "code" -> Str(code)
      [] k = "message" -> Str("no such path")
      [] k = "detail" -> Str("looked in 2 stores")
      [] k = "suggestion" -> Str("check the path")
      [] k = "docs_url" -> Str("https://docs/errors")
      [] OTHER -> Obj([agent |-> Str(AgentName)])

\* Error payloads as the wire protocol describes them: one of the well-known
\* codes or another one, a message, any of the diagnostic fields.
WirePayloads ==
    {Obj([k \in {"code", "message"} \cup present |-> PayloadValue(k, code)]) :
        code \in WellKnownCodes \cup {UnknownCode}, present \in SUBSET DiagnosticKeys}

\* Payloads that are no VaultError, and the null payload.
OddPayloads ==
    {Obj([code |-> Num(42), message |-> Str("bad")]),
     Obj([code |-> Str(ErrVaultLocked), detail |-> Bool(TRUE)]),
     Str("boom"), Num(7), Null}

MapperInputs ==
    {RpcResponse(1, Nil, e, 1) : e \in WirePayloads \cup OddPayloads} \cup
    {RpcResponse(1, Obj([path |-> Str("db/primary")]), e, 1) : e \in WirePayloads} \cup
    {RpcResponse(1, Obj([path |-> Str("db/primary")]), Nil, 1)}

InitErr ==
    /\ InitClient
    /\ mapperIn \in MapperInputs
    /\ mapperOut = NoOutcome
    /\ IdleApi
    /\ IdleFrame
    /\ IdleVault

\* call, from the response readFrame returned to its return
MapResponse ==
    /\ mapperOut = NoOutcome
    /\ mapperOut' = CallOutcome(mapperIn)
    /\ UNCHANGED <<clientVars, mapperIn, apiVars, frameVars, vaultVars>>

NextErr == MapResponse

SpecErr == InitErr /\ [][NextErr]_vars

-----------------------------------------------------------------------------
(* The public operations on their own: an operation, the call it made and  *)
(* the response frame that call read, and the one step from that frame to  *)
(* what the operation returns.                                             *)

\* The raw value of the credential the operations below are about.
SecretValue == "s3cr3t"

InfoA == Obj([path |-> Str("openai/api_key")])
InfoB == Obj([path |-> Str("db/primary"), type |-> Str("password"),
              description |-> Str("primary database")])

\* Results the server may send for a method, well-formed and not.
ApiResults(method) ==
    {Nil, Null} \cup
    CASE method = "auth.challenge" ->
           {Obj([challenge |-> Str(ChallengeFor(1))]), Obj([challenge |-> Str(BadHex)]),
            Obj([challenge |-> Num(7)])}
      [] method = "auth.verify" ->
           {Obj([authenticated |-> Bool(TRUE), session_id |-> Str("s")]),
            Obj([authenticated |-> Bool(FALSE)]), Obj([session_id |-> Str("s")])}
      [] method = "credential.retrieve" ->
           {Obj([path |-> Str("db/primary"), value |-> Str(SecretValue),
                 lease_id |-> Str("L1"), ttl |-> Num(60)]),
            Obj([path |-> Num(1)])}
      [] method = "credential.list" ->
           {Arr(<<>>), Arr(<<InfoA>>), Arr(<<InfoA, InfoB>>), Arr(<<InfoB, InfoA>>),
            Arr(<<InfoA, InfoA>>), Arr(<<Obj([path |-> Num(1)])>>), InfoA}
      [] method = "lease.release" ->
           {Obj([released |-> Bool(TRUE)]), Str("ok")}
      [] OTHER ->
           {Obj([success |-> Bool(TRUE), output |-> Obj([signature |-> Str("c2ln")])]),
            Obj([success |-> Bool(TRUE), output |-> Str(SecretValue)]),
            Obj([success |-> Bool(TRUE), output |-> Obj([value |-> Str(SecretValue)])]),
            Obj([success |-> Bool(TRUE), value |-> Str(SecretValue)]),
            Obj([success |-> Bool(FALSE)]),
            Obj([success |-> Str("yes")])}

ApiErrors ==
    {Nil, Null,
     Obj([code |-> Str(ErrCredentialNotFound), message |-> Str("no such path")]),
     Obj([code |-> Str(ErrRateLimited), message |-> Str("slow down"),
          detail |-> Str("10 per minute")]),
     Obj([code |-> Str(UnknownCode)]),
     Obj([code |-> Num(42), message |-> Str("bad")])}

\* The calls the public operations make: <<operation, method>>.
ApiCalls ==
    {<<"Authenticate", "auth.challenge">>, <<"Authenticate", "auth.verify">>,
     <<"Retrieve", "credential.retrieve">>, <<"List", "credential.list">>,
     <<"ReleaseLease", "lease.release">>, <<"Use", "credential.use">>}

ApiInputs ==
    {[operation |-> c[1], method |-> c[2], resp |-> RpcResponse(1, r, e, 1)] :
        c \in ApiCalls, r \in UNION {ApiResults(d[2]) : d \in ApiCalls}, e \in ApiErrors}

InitApi ==
    /\ InitClient
    /\ IdleMapper
    /\ apiIn \in {i \in ApiInputs : i.resp.Result \in ApiResults(i.method)}
    /\ apiOut = NoApiOut
    /\ IdleFrame
    /\ IdleVault

\* call from the response it read to its return, and the operation from
\* there to its return or to its next call
ApplyOperation ==
    /\ apiOut = NoApiOut
    /\ LET o == CallOutcome(apiIn.resp)
           r == CallResult(o.Result, o.Err, 1, apiIn.resp)
       IN apiOut' = AfterCall(apiIn.operation, apiIn.method, r)
    /\ UNCHANGED <<clientVars, mapperVars, apiIn, frameVars, vaultVars>>

NextApi == ApplyOperation

SpecApi == InitApi /\ [][NextApi]_vars

-----------------------------------------------------------------------------
(* The frame codec on its own.  A length is the sequence of its base-256   *)
(* digits, most significant first: len(payload) is an int of 64 bits, the  *)
(* length prefix a uint32 of 4 digits.  The payload bytes are not kept,    *)
(* only their number.                                                      *)

maxFrameSize == 16 * 1024 * 1024

\* binary.BigEndian: the 4 bytes of a uint32
BigEndian4(n) ==
    <<(n \div 16777216) % 256, (n \div 65536) % 256, (n \div 256) % 256, n % 256>>

\* a length without its leading zero digits
RECURSIVE Normalize(_)
Normalize(d) == IF d # <<>> /\ Head(d) = 0 THEN Normalize(Tail(d)) ELSE d

\* uint32(n): the low 32 bits of n
Uint32(d) ==
    LET n == Len(d)
    IN IF n >= 4 THEN SubSeq(d, n - 3, n)
       ELSE [i \in 1..4 |-> IF i <= 4 - n THEN 0 ELSE d[i - (4 - n)]]

\* a > b for two uint32
Greater(a, b) ==
    \E i \in 1..4 : a[i] > b[i] /\ \A j \in 1..(i - 1) : a[j] = b[j]

\* (mutant: a frame of exactly maxFrameSize is rejected too)
TooLarge_AtLimit(length) ==
    Greater(length, BigEndian4(maxFrameSize)) \/ length = BigEndian4(maxFrameSize)

\* length > maxFrameSize
TooLarge(length) == Greater(length, BigEndian4(maxFrameSize))

\* Lengths of encoded requests: 34 bytes, 256, 16 MiB, 16 MiB + 1,
\* 2^32 - 1, 2^32, 2^32 + 5, 2^33 + 2^24.
EncLens ==
    {<<34>>, <<1, 0>>, <<1, 0, 0, 0>>, <<1, 0, 0, 1>>, <<255, 255, 255, 255>>,
     <<1, 0, 0, 0, 0>>, <<1, 0, 0, 0, 5>>, <<2, 1, 0, 0, 0>>}

EncInputs == {[len |-> l, fail |-> f] : l \in EncLens, f \in {"none", "hdr", "pay"}}

\* Incoming streams: the header bytes that arrive (fewer than 4 when the
\* stream ends early) and what follows them: the declared number of bytes
\* holding a JSON response, as many bytes that are no JSON, or fewer bytes.
DecHeaders ==
    {<<0, 0, 0, 0>>, <<0, 0, 0, 34>>, <<0, 255, 255, 255>>, <<1, 0, 0, 0>>,
     <<1, 0, 0, 1>>, <<1, 49, 45, 0>>, <<255, 255, 255, 255>>, <<0, 0>>, <<>>}

DecInputs == {[hdr |-> h, body |-> b] : h \in DecHeaders, b \in {"json", "malformed", "short"}}

InitFrame ==
    /\ InitClient
    /\ IdleMapper
    /\ IdleApi
    /\ encIn \in EncInputs
    /\ encOut = NoEncOut
    /\ decIn \in DecInputs
    /\ decOut = NoDecOut
    /\ IdleVault

\* writeFrame: length := uint32(len(payload)); binary.Write(w, BigEndian, length)
EncodeHeader ==
    /\ encOut.stage = "idle"
    /\ encOut' = IF encIn.fail = "hdr"
                 THEN [stage |-> "done", wire |-> <<>>,
                       err |-> Wrapped("write length", NetError("closed"))]
                 ELSE [stage |-> "pay",
                       wire |-> <<[part |-> "hdr", bytes |-> Uint32(encIn.len)]>>,
                       err |-> NoErr]
    /\ UNCHANGED <<clientVars, mapperVars, apiVars, vaultVars, encIn, decIn, decOut>>

\* writeFrame: w.Write(payload)
EncodePayload ==
    /\ encOut.stage = "pay"
    /\ encOut' = IF encIn.fail = "pay"
                 THEN [encOut EXCEPT !.stage = "done",
                          !.err = Wrapped("write payload", NetError("closed"))]
                 ELSE [encOut EXCEPT !.stage = "done",
                          !.wire = Append(@, [part |-> "pay", len |-> encIn.len])]
    /\ UNCHANGED <<clientVars, mapperVars, apiVars, vaultVars, encIn, decIn, decOut>>

\* readFrame: binary.Read(r, BigEndian, &length); length > maxFrameSize
DecodeHeader ==
    /\ decOut.stage = "idle"
    /\ decOut' =
          IF Len(decIn.hdr) < 4
          THEN [decOut EXCEPT !.stage = "done", !.hdrRead = Len(decIn.hdr),
                   !.err = Wrapped("read length", NetError("EOF"))]
          ELSE IF TooLarge(decIn.hdr)
          THEN [decOut EXCEPT !.stage = "done", !.hdrRead = 4,
                   !.err = ProtocolError("frame too large")]
          ELSE [decOut EXCEPT !.stage = "pay", !.hdrRead = 4]
    /\ UNCHANGED <<clientVars, mapperVars, apiVars, vaultVars, encIn, encOut, decIn>>

\* readFrame: io.ReadFull(r, payload); json.Unmarshal(payload, &resp).  No
\* JSON text is empty, so a payload of length 0 does not parse.
DecodePayload ==
    /\ decOut.stage = "pay"
    /\ decOut' =
          IF decIn.body = "short" /\ Normalize(decIn.hdr) # <<>>
          THEN [decOut EXCEPT !.stage = "done", !.payRead = "part",
                   !.err = Wrapped("read payload", NetError("EOF"))]
          ELSE IF decIn.body = "json" /\ Normalize(decIn.hdr) # <<>>
          THEN [decOut EXCEPT !.stage = "done", !.payRead = "all", !.parsed = TRUE,
                   !.resp = TRUE]
          ELSE [decOut EXCEPT !.stage = "done", !.payRead = "all", !.parsed = TRUE,
                   !.err = Wrapped("unmarshal response", JsonError)]
    /\ UNCHANGED <<clientVars, mapperVars, apiVars, vaultVars, encIn, encOut, decIn>>

NextFrame ==
    \/ EncodeHeader
    \/ EncodePayload
    \/ DecodeHeader
    \/ DecodePayload

SpecFrame == InitFrame /\ [][NextFrame]_vars

-----------------------------------------------------------------------------
(* The local binding: a Vault around a handle of the FFI layer, used by    *)
(* one caller.  What the FFI layer answers is drawn freely.                *)

\* the result codes of the FFI layer, and one outside the closed set
ResultCodes == {"OK", "NULL_POINTER", "INVALID_UTF8", "NOT_INITIALIZED", "ACCESS_DENIED",
                "NOT_FOUND", "CRYPTO_ERROR", "BUFFER_TOO_SMALL", "JSON_ERROR", "PANIC",
                "42"}

Sentinel(msg) == [type |-> "sentinel", msg |-> msg]
ErrorsNew(msg) == [type |-> "errors.New", msg |-> msg]

\* (mutant: the case of NOT_FOUND is missing)
resultToError_NoNotFound(code) ==
    CASE code = "OK" -> NoErr
      [] code = "ACCESS_DENIED" -> Sentinel("sanctum: access denied")
      [] OTHER -> [type |-> "fmt.Errorf", msg |-> "sanctum: error code %d", code |-> code]

resultToError(code) ==
    CASE code = "OK" -> NoErr
      [] code = "NULL_POINTER" -> Sentinel("sanctum: null pointer")
      [] code = "INVALID_UTF8" -> Sentinel("sanctum: invalid UTF-8")
      [] code = "NOT_INITIALIZED" -> Sentinel("sanctum: vault not initialized")
      [] code = "ACCESS_DENIED" -> Sentinel("sanctum: access denied")
      [] code = "NOT_FOUND" -> Sentinel("sanctum: credential not found")
      [] code = "CRYPTO_ERROR" -> Sentinel("sanctum: cryptographic error")
      [] code = "BUFFER_TOO_SMALL" -> Sentinel("sanctum: buffer too small")
      [] code = "JSON_ERROR" -> Sentinel("sanctum: JSON error")
      [] code = "PANIC" -> Sentinel("sanctum: panic caught at FFI boundary")
      [] OTHER -> [type |-> "fmt.Errorf", msg |-> "sanctum: error code %d", code |-> code]

\* what sanctum_error_message can hold after a failure
lastErrorMessages == {"", "bad passphrase"}
\* the inputs: a passphrase, a secret
Passphrases == {<<>>, <<1>>}
Secrets == {<<>>, <<7>>}
\* the sizes the FFI layer can ask for
Needed == 0..1

\* a call into the FFI layer with handle h, whether h had been freed, and
\* the result code it returned, if it returns one
FfiCall(fn, h) == [fn |-> fn, handle |-> h, freed |-> h # NilPtr /\ ffi[h] > 0,
                   rc |-> "none"]
Returning(call, rc) == [call EXCEPT !.rc = rc]

\* the operation op on Vault i returns
VaultReturn(op_, i, calls, bytes, str, err) ==
    vret' = [op |-> op_, v |-> i, afterClose |-> i # 0 /\ closeCalls[i] > 0,
             calls |-> calls, bytes |-> bytes, str |-> str, err |-> err,
             panics |-> FALSE]
\* ... or ends in a run-time panic
VaultPanics(op_, i) ==
    vret' = [NoVaultReturn EXCEPT !.op = op_, !.v = i, !.panics = TRUE,
                                  !.afterClose = i # 0 /\ closeCalls[i] > 0]

\* (mutant: the closed check is left out)
IsClosed_Never(i) == FALSE
\* v.ptr == nil
IsClosed(i) == vault[i].ptr = NilPtr

ErrClosed == ErrorsNew("sanctum: vault is closed")

\* Init and Open: the next Vault object, around a fresh handle
Construct(fn, what, passphrase) ==
    \E i \in Vaults :
       /\ ~vault[i].made
       /\ \A j \in Vaults : j < i => vault[j].made
       /\ UNCHANGED <<clientVars, mapperVars, apiVars, frameVars, ffi, closeCalls>>
       /\ IF passphrase = <<>>
          THEN \* &passphrase[0]: index out of range
               /\ VaultPanics(what, 0)
               /\ UNCHANGED vault
          ELSE \E ptr \in {NilPtr, i}, msg \in lastErrorMessages :
                  IF ptr = NilPtr
                  THEN /\ VaultReturn(what, 0, <<FfiCall(fn, NilPtr)>>, <<>>, "",
                                      ErrorsNew(IF msg # "" THEN <<what, "failed: ", msg>>
                                                ELSE <<what, "failed">>))
                       /\ UNCHANGED vault
                  ELSE /\ VaultReturn(what, i, <<FfiCall(fn, NilPtr)>>, <<>>, "", NoErr)
                       /\ vault' = [vault EXCEPT ![i] = [made |-> TRUE, ptr |-> ptr]]

VaultInit == \E passphrase \in Passphrases : Construct("sanctum_vault_init", "Init", passphrase)
VaultOpen == \E passphrase \in Passphrases : Construct("sanctum_vault_open", "Open", passphrase)

\* (mutant: Close frees the handle and keeps it)
VaultClose_KeepsPtr(i) ==
    /\ vault[i].made
    /\ closeCalls[i] < MaxCloses
    /\ closeCalls' = [closeCalls EXCEPT ![i] = @ + 1]
    /\ UNCHANGED <<clientVars, mapperVars, apiVars, frameVars, vault>>
    /\ ffi' = [ffi EXCEPT ![vault[i].ptr] = @ + 1]
    /\ VaultReturn("Close", i, <<FfiCall("sanctum_vault_free", vault[i].ptr)>>,
                   <<>>, "", NoErr)

VaultClose(i) ==
    /\ vault[i].made
    /\ closeCalls[i] < MaxCloses
    /\ closeCalls' = [closeCalls EXCEPT ![i] = @ + 1]
    /\ UNCHANGED <<clientVars, mapperVars, apiVars, frameVars>>
    /\ IF vault[i].ptr # NilPtr
       THEN /\ ffi' = [ffi EXCEPT ![vault[i].ptr] = @ + 1]
            /\ vault' = [vault EXCEPT ![i].ptr = NilPtr]
            /\ VaultReturn("Close", i, <<FfiCall("sanctum_vault_free", vault[i].ptr)>>,
                           <<>>, "", NoErr)
       ELSE /\ VaultReturn("Close", i, <<>>, <<>>, "", NoErr)
            /\ UNCHANGED <<ffi, vault>>

VaultStore(i) ==
    /\ vault[i].made
    /\ UNCHANGED <<clientVars, mapperVars, apiVars, frameVars, vault, ffi, closeCalls>>
    /\ \E secret \in Secrets :
          IF IsClosed(i)
          THEN VaultReturn("Store", i, <<>>, <<>>, "", ErrClosed)
          ELSE IF secret = <<>>
          THEN \* &secret[0]: index out of range
               VaultPanics("Store", i)
          ELSE \E rc \in ResultCodes :
                  VaultReturn("Store", i,
                              <<Returning(FfiCall("sanctum_vault_store", vault[i].ptr), rc)>>,
                              <<>>, "", resultToError(rc))

\* the two calls of Retrieve and of AuditLog: the first asks for the size,
\* the second fills a buffer of that size plus extra bytes
SizedCall(i, op_, fn, extra, empty) ==
    LET call == FfiCall(fn, vault[i].ptr) IN
    \E rc \in ResultCodes, needed \in Needed :
       IF rc # "BUFFER_TOO_SMALL" /\ rc # "OK"
       THEN VaultReturn(op_, i, <<Returning(call, rc)>>, <<>>, "", resultToError(rc))
       ELSE IF needed = 0
       THEN VaultReturn(op_, i, <<Returning(call, rc)>>, <<>>, empty, NoErr)
       ELSE \E rc2 \in ResultCodes, outLen \in 0..(needed + extra) :
               IF resultToError(rc2) # NoErr
               THEN VaultReturn(op_, i, <<Returning(call, rc), Returning(call, rc2)>>,
                                <<>>, "", resultToError(rc2))
               ELSE VaultReturn(op_, i, <<Returning(call, rc), Returning(call, rc2)>>,
                                [k \in 1..outLen |-> 7], "", NoErr)

VaultRetrieve(i) ==
    /\ vault[i].made
    /\ UNCHANGED <<clientVars, mapperVars, apiVars, frameVars, vault, ffi, closeCalls>>
    /\ IF IsClosed(i)
       THEN VaultReturn("Retrieve", i, <<>>, <<>>, "", ErrClosed)
       ELSE SizedCall(i, "Retrieve", "sanctum_vault_retrieve", 0, "")

CheckPolicy(i) ==
    /\ vault[i].made
    /\ UNCHANGED <<clientVars, mapperVars, apiVars, frameVars, vault, ffi, closeCalls>>
    /\ IF IsClosed(i)
       THEN VaultReturn("CheckPolicy", i, <<>>, <<>>, "", ErrClosed)
       ELSE \E rc \in ResultCodes :
               VaultReturn("CheckPolicy", i,
                           <<Returning(FfiCall("sanctum_vault_check_policy",
                                               vault[i].ptr), rc)>>,
                           <<>>, "", resultToError(rc))

AuditLog(i) ==
    /\ vault[i].made
    /\ UNCHANGED <<clientVars, mapperVars, apiVars, frameVars, vault, ffi, closeCalls>>
    /\ IF IsClosed(i)
       THEN VaultReturn("AuditLog", i, <<>>, <<>>, "", ErrClosed)
       ELSE SizedCall(i, "AuditLog", "sanctum_vault_audit_log", 1, "[]")

InitVault == InitClient /\ IdleMapper /\ IdleApi /\ IdleFrame /\ IdleVault

NextVault ==
    \/ VaultInit
    \/ VaultOpen
    \/ \E i \in Vaults : VaultClose(i)
    \/ \E i \in Vaults : VaultStore(i)
    \/ \E i \in Vaults : VaultRetrieve(i)
    \/ \E i \in Vaults : CheckPolicy(i)
    \/ \E i \in Vaults : AuditLog(i)

SpecVault == InitVault /\ [][NextVault]_vars

-----------------------------------------------------------------------------
(* Properties.                                                             *)

\* Goroutine p has written the first bytes of a request frame and its read
\* of the response has not ended.
InExchange(p) == pc[p] \in {"wpay", "rhdr", "rpay"}

\* The next step of goroutine p in its call is a write to or a read from
\* the connection.
OnConnection(p) == pc[p] \in {"whdr", "wpay", "rhdr", "rpay"}

\* C1: at most one request/response exchange is in progress on the
\* connection at any instant: while a call is between the first write of its
\* request frame and the end of its read, no other call is at a write to or
\* a read from the connection.
C1_OneExchangeAtATime ==
    \A p, q \in Procs : (p # q /\ InExchange(p)) => ~OnConnection(q)

\* C1 witness: a call is in the middle of its exchange while another caller
\* is blocked in Lock.
C1_Witness ==
    \E p, q \in Procs : p # q /\ InExchange(p) /\ Waiting(q)

\* The call of p returned a result or a VaultError read from a response.
Delivered(p) ==
    /\ callRes[p].resp # NoResp
    /\ callRes[p].Err.type \in {"nil", "VaultError"}

\* C2: every call that returns a result or a VaultError returns the
\* response the server produced for that call's own request.
C2_OwnResponse ==
    \A p \in Procs : Delivered(p) => callRes[p].resp.forReq = callRes[p].reqID

\* C3: a call delivers a response only if the response's id equals the id
\* of the request the call sent.
C3_ResponseIdMatches ==
    \A p \in Procs : Delivered(p) => callRes[p].resp.ID = callRes[p].reqID

\* Goroutine p enters a call in this step.
EntersCall(p) == req'[p] # req[p]

\* C4: the first request id allocated is 1 and every later one is the
\* previous one plus 1; no id is allocated twice, the counter is never
\* reset, and no two request frames on the connection carry the same id.
C4_IdsUnique ==
    /\ nextID = 1
    /\ [][/\ nextID' # nextID => nextID' = nextID + 1 /\ \E p \in Procs : EntersCall(p)
          /\ \A p \in Procs :
                EntersCall(p) =>
                   /\ req'[p].ID = nextID
                   /\ nextID' = nextID + 1
                   /\ \A q \in Procs : req[q].ID # nextID
                   /\ nextID \notin wireIDs
          /\ \A p \in Procs :
                (pc[p] = "whdr" /\ pc'[p] = "wpay") => req[p].ID \notin wireIDs
         ]_vars

\* C4 witness: after a first call with id 1, two concurrent calls hold the
\* ids 2 and 3; the ids 1 and 2 have been written to the connection.
C4_Witness ==
    \E p, q \in Procs :
       /\ p # q
       /\ InExchange(p) /\ pc[q] = "lock"
       /\ req[p].ID = 2 /\ req[q].ID = 3
       /\ nextID = 4
       /\ {1, 2} \subseteq wireIDs

\* C5: a call whose deadline passes or whose context is cancelled while it
\* is waiting for the exchange section returns without having written any
\* byte of its request frame.
C5_NothingSentAfterWaiting ==
    \A p \in Procs : doneWaiting[p] => ~InExchange(p)

\* The part of C5 the code keeps: a call whose deadline passes while it is
\* waiting writes nothing.
C5_DeadlineOnly ==
    \A p \in Procs : (doneWaiting[p] /\ ctx[p] = "deadline") => ~InExchange(p)

\* Scheduling: a goroutine that can take a step of its call takes it, and
\* time passes.  The server is under no obligation to answer.
CallStep(p) ==
    \/ Lock(p)
    \/ WriteHeader(p)
    \/ WritePayload(p)
    \/ ReadHeader(p)
    \/ ReadPayload(p)

LiveSpec ==
    /\ Init
    /\ [][Next]_vars
    /\ \A p \in Procs : WF_vars(CallStep(p))
    /\ \A p \in Procs : WF_vars(DeadlinePasses(p))

\* C6: every call made with a deadline eventually returns once that
\* deadline has passed.
C6_DeadlineCallReturns ==
    \A p \in Procs : (ctx[p] = "deadline" /\ ctxDone[p]) ~> ~InOperation(p)

\* The response frame the last call of p consumed: its result.
Consumed(p) == callRes[p].resp.Result

\* A call of goroutine p returns in this step.
CallReturns(p) == pc[p] \in {"lock", "whdr", "wpay", "rhdr", "rpay"} /\ callRes'[p] # callRes[p]

\* C7: Authenticate returns nil only if the response it consumed for its
\* auth.verify call carries authenticated = true; when its auth.challenge
\* call or its auth.verify call fails, Authenticate returns an error with
\* that step.
C7_AuthenticatedOnlyIfFlag ==
    /\ [](\A p \in Procs :
            (pc[p] = "done" /\ op[p] = "Authenticate" /\ ret[p].Err = NoErr) =>
               /\ sent[p] = <<"auth.challenge", "auth.verify">>
               /\ req[p].Method = "auth.verify"
               /\ callRes[p].reqID = req[p].ID
               /\ callRes[p].Err = NoErr
               /\ callRes[p].resp # NoResp
               /\ callRes[p].resp.Error = Nil
               /\ HasKey(Consumed(p), "authenticated")
               /\ Consumed(p).v.authenticated = Bool(TRUE))
    /\ [][\A p \in Procs :
            (op[p] = "Authenticate" /\ CallReturns(p) /\ callRes'[p].Err # NoErr) =>
               /\ pc'[p] = "done"
               /\ ret'[p].Err # NoErr
               /\ req'[p] = req[p]]_vars

\* C7 witness: an Authenticate returned nil.
C7_Witness ==
    \E p \in Procs : pc[p] = "done" /\ op[p] = "Authenticate" /\ ret[p].Err = NoErr

\* The challenge string in the response the last call of p consumed.
ConsumedChallenge(p) ==
    IF HasKey(Consumed(p), "challenge") /\ Consumed(p).v.challenge.t = "str"
    THEN Consumed(p).v.challenge.v ELSE <<>>

IsHex(str) ==
    /\ Len(str) % 2 = 0
    /\ \A i \in 1..Len(str) :
          str[i] \in {HexDigits[k] : k \in 1..16} \cup {HexUpper[k] : k \in 1..6}

\* C8: within one Authenticate the request frames are auth.challenge, then
\* auth.verify; an auth.verify request exists only after the auth.challenge
\* call succeeded and its challenge decoded from hex; when the challenge is
\* not valid hex, Authenticate returns an error having written one
\* auth.challenge and no auth.verify.
C8_ChallengeThenVerify ==
    \A p \in Procs :
       op[p] = "Authenticate" =>
          /\ sent[p] \in {<<>>, <<"auth.challenge">>, <<"auth.challenge", "auth.verify">>}
          /\ (InOperation(p) /\ req[p].Method = "auth.verify") =>
                /\ Len(sent[p]) >= 1 /\ sent[p][1] = "auth.challenge"
                /\ callRes[p].Err = NoErr
                /\ callRes[p].resp # NoResp
                /\ IsHex(ConsumedChallenge(p))
                /\ EncodeToString(challengeBytes[p]) = ConsumedChallenge(p)
          /\ (/\ pc[p] = "done"
              /\ req[p].Method = "auth.challenge"
              /\ callRes[p].Err = NoErr
              /\ ~IsHex(ConsumedChallenge(p))) =>
                /\ ret[p].Err # NoErr
                /\ sent[p] = <<"auth.challenge">>

\* C8 witness: an Authenticate returned on a challenge that is not hex.
C8_Witness ==
    \E p \in Procs :
       /\ pc[p] = "done" /\ op[p] = "Authenticate"
       /\ req[p].Method = "auth.challenge"
       /\ callRes[p].Err = NoErr
       /\ ConsumedChallenge(p) = BadHex
       /\ ret[p].Err.type = "fmt" /\ ret[p].Err.prefix = "decode challenge hex"

\* Goroutine p enters Authenticate in this step.
EntersAuthenticate(p) ==
    pc[p] \in {"idle", "done"} /\ pc'[p] \notin {"idle", "done"} /\ op'[p] = "Authenticate"

IsErrorPayload(j) ==
    /\ j.t = "obj"
    /\ \A k \in DOMAIN j.v \cap VaultErrorStringKeys : j.v[k].t = "str"

PayloadString(j, k) == IF k \in DOMAIN j.v THEN j.v[k].v ELSE ""

\* C10: when the consumed response carries an error payload, the call fails
\* with a VaultError whose code, message, detail, suggestion, docs_url and
\* context are exactly those of the payload, whatever the code is.
C10_VaultErrorVerbatim ==
    (mapperOut # NoOutcome /\ mapperIn.Error # Nil /\ IsErrorPayload(mapperIn.Error)) =>
       LET e == mapperIn.Error IN
       /\ mapperOut.Result = Nil
       /\ mapperOut.Err.type = "VaultError"
       /\ mapperOut.Err.Code = PayloadString(e, "code")
       /\ mapperOut.Err.Message = PayloadString(e, "message")
       /\ mapperOut.Err.Detail = PayloadString(e, "detail")
       /\ mapperOut.Err.Suggestion = PayloadString(e, "suggestion")
       /\ mapperOut.Err.DocsURL = PayloadString(e, "docs_url")
       /\ mapperOut.Err.Context = (IF "context" \in DOMAIN e.v THEN e.v.context ELSE Nil)

\* C10 witness: a payload with a code outside the well-known ones and all
\* diagnostic fields has been mapped.
C10_Witness ==
    /\ mapperOut # NoOutcome
    /\ IsErrorPayload(mapperIn.Error)
    /\ DiagnosticKeys \subseteq DOMAIN mapperIn.Error.v
    /\ mapperIn.Error.v.code.v \notin WellKnownCodes
    /\ mapperOut.Err.type = "VaultError"

\* C11: an operation returns a success value or an error, never both, and
\* whenever the response its call consumed carries an error payload the
\* operation returns an error, also when the response carries a result too.
C11_ValueOrError ==
    apiOut # NoApiOut =>
       /\ apiOut.returns => (apiOut.Err # NoErr => apiOut.Val = Nil)
       /\ apiIn.resp.Error # Nil =>
             /\ apiOut.returns
             /\ apiOut.Err # NoErr
             /\ apiOut.Val = Nil

\* C11 witness: an operation has returned an error for a response that
\* carries both a result and an error payload.
C11_Witness ==
    /\ apiOut # NoApiOut
    /\ apiIn.operation = "Use"
    /\ apiIn.resp.Result.t = "obj" /\ apiIn.resp.Error.t = "obj"
    /\ apiOut.returns /\ apiOut.Err.type = "VaultError" /\ apiOut.Val = Nil

\* The error an operation returns for the error of its call: that error,
\* as it is or wrapped.
Surfaces(err, callErr) == err = callErr \/ (err.type = "fmt" /\ err.inner = callErr)

\* C12: no automatic retries.  A call is entered only at the start of an
\* invocation or, in Authenticate, as the auth.verify after an auth.challenge
\* call that succeeded; so Retrieve, List, ReleaseLease and Use write at most
\* one request frame, Authenticate at most an auth.challenge then an
\* auth.verify; and the error of a failed call is returned to the caller.
C12_NoRetries ==
    /\ [](\A p \in Solo :
            /\ op[p] \in {"Retrieve", "List", "ReleaseLease", "Use"} => Len(sent[p]) <= 1
            /\ op[p] = "Authenticate" =>
                  sent[p] \in {<<>>, <<"auth.challenge">>,
                               <<"auth.challenge", "auth.verify">>})
    /\ [][\A p \in Solo :
            /\ EntersCall(p) =>
                  \/ pc[p] \in {"idle", "done"}
                  \/ /\ op[p] = "Authenticate"
                     /\ req[p].Method = "auth.challenge"
                     /\ req'[p].Method = "auth.verify"
                     /\ callRes'[p].Err = NoErr
            /\ (CallReturns(p) /\ callRes'[p].Err # NoErr) =>
                  /\ pc'[p] = "done"
                  /\ Surfaces(ret'[p].Err, callRes'[p].Err)
                  /\ req'[p] = req[p]]_vars

\* C12 witness: a Use whose request was written and whose read failed on
\* the transport has returned, one frame written.
C12_Witness ==
    \E p \in Solo :
       /\ pc[p] = "done" /\ op[p] = "Use"
       /\ sent[p] = <<"credential.use">>
       /\ callRes[p].resp = NoResp
       /\ ret[p].Err.type = "fmt"

\* The length a 4-byte header declares is greater than 16,777,216.
DeclaresMoreThan16MiB(h) == Normalize(h) \notin {<<>>, <<1, 0, 0, 0>>} /\ h[1] >= 1

\* C13: a header declaring more than 16,777,216 bytes makes readFrame fail
\* with a protocol error, no byte after the header read and no JSON parsed;
\* a header declaring up to and including 16,777,216 is not rejected for
\* its size.
C13_OversizedFrameRejected ==
    (decOut.stage # "idle" /\ Len(decIn.hdr) = 4) =>
       IF DeclaresMoreThan16MiB(decIn.hdr)
       THEN /\ decOut.stage = "done"
            /\ decOut.err.type = "ProtocolError"
            /\ decOut.hdrRead = 4
            /\ decOut.payRead = "none"
            /\ ~decOut.parsed
            /\ ~decOut.resp
       ELSE decOut.err.type # "ProtocolError"

\* C13 witness: a header declaring 20,000,000 bytes has been rejected.
C13_Witness ==
    /\ decIn.hdr = <<1, 49, 45, 0>>
    /\ decOut.stage = "done"
    /\ decOut.err.type = "ProtocolError"

\* C14: the frame writeFrame wrote is a 4-byte length followed by the
\* payload, and the length prefix is the number of payload bytes, for every
\* payload length.
C14_PrefixIsLength ==
    (encOut.stage = "done" /\ encOut.err = NoErr) =>
       /\ Len(encOut.wire) = 2
       /\ encOut.wire[1].part = "hdr" /\ Len(encOut.wire[1].bytes) = 4
       /\ encOut.wire[2].part = "pay" /\ encOut.wire[2].len = encIn.len
       /\ Normalize(encOut.wire[1].bytes) = Normalize(encOut.wire[2].len)

\* For payloads whose length fits in 32 bits the prefix is the length.
C14_PrefixIsLengthBelow4GiB ==
    (encOut.stage = "done" /\ encOut.err = NoErr /\ Len(encIn.len) <= 4) =>
       /\ Len(encOut.wire) = 2
       /\ encOut.wire[1].part = "hdr" /\ Len(encOut.wire[1].bytes) = 4
       /\ encOut.wire[2].part = "pay" /\ encOut.wire[2].len = encIn.len
       /\ Normalize(encOut.wire[1].bytes) = Normalize(encOut.wire[2].len)

\* No call is in progress.
AllReturned == \A p \in Procs : ~InOperation(p)

\* C15: with contexts that never end, an open connection and a server that
\* answers each request once, the N calls made (N = nextID - 1) write N
\* request frames, and every call reads exactly one response frame, the one
\* the server produced for its own request; once all have returned no
\* request or response frame is left over.
C15_OneExchangePerCall ==
    /\ [](AllReturned =>
            /\ Cardinality(wireIDs) = nextID - 1
            /\ out = <<>> /\ inbuf = <<>> /\ srvPending = NoReq)
    /\ [][\A p \in Procs :
            CallReturns(p) =>
               /\ req[p].ID \in wireIDs
               /\ callRes'[p].resp # NoResp
               /\ callRes'[p].resp.forReq = req[p].ID
               /\ Len(inbuf') = Len(inbuf) - 1]_vars

\* C15 witness: MaxCalls calls by different callers have all returned.
C15_Witness ==
    /\ AllReturned
    /\ nextID = MaxCalls + 1
    /\ \A p \in Procs : pc[p] = "done" /\ callRes[p].resp # NoResp

\* Goroutine p writes the first bytes of its request frame in this step.
StartsFrame(p) == pc[p] = "whdr" /\ pc'[p] = "wpay"

\* C16: request ids follow the order of the exchanges: a request frame
\* written to the connection carries an id greater than the id of every
\* frame written before it.
C16_IdsFollowWireOrder ==
    [][\A p \in Procs :
         StartsFrame(p) => \A i \in wireIDs : i < req[p].ID]_vars

\* The JSON value j holds the raw credential value somewhere.
RECURSIVE HoldsSecret(_)
HoldsSecret(j) ==
    CASE j.t = "str" -> j.v = SecretValue
      [] j.t = "obj" -> \E k \in DOMAIN j.v : HoldsSecret(j.v[k])
      [] j.t = "arr" -> \E i \in 1..Len(j.v) : HoldsSecret(j.v[i])
      [] OTHER -> FALSE

\* Use has returned a UseResult.
UseReturned == apiIn.operation = "Use" /\ apiOut.returns /\ apiOut.Err = NoErr

\* C17 as stated: whatever the server sends, the UseResult that Use returns
\* holds the raw credential value nowhere.
C17_UseResultNeverHoldsSecret ==
    UseReturned => ~HoldsSecret(apiOut.Val.Output)

\* C17: the UseResult that Use returns has the success flag and the output
\* of the server's result and nothing else of it, the output unchanged; it
\* holds the raw credential value only where the server's output holds it.
C17_UseResultIsSuccessAndOutput ==
    UseReturned =>
       LET result == apiIn.resp.Result
           output == IF result.t = "obj" /\ "output" \in DOMAIN result.v
                     THEN result.v.output ELSE Nil
       IN /\ DOMAIN apiOut.Val = {"Success", "Output"}
          /\ apiOut.Val.Output = output
          /\ apiOut.Val.Success \in BOOLEAN
          /\ apiOut.Val.Success =>
                (result.t = "obj" /\ "success" \in DOMAIN result.v
                   /\ result.v.success = Bool(TRUE))
          /\ HoldsSecret(apiOut.Val.Output) => HoldsSecret(output)

\* C17 witness: Use has returned for a result that carries the credential
\* value in a value field, and the UseResult does not hold it.
C17_Witness ==
    /\ UseReturned
    /\ apiIn.resp.Result.t = "obj"
    /\ "value" \in DOMAIN apiIn.resp.Result.v
    /\ HoldsSecret(apiIn.resp.Result)
    /\ ~HoldsSecret(apiOut.Val.Output)

\* A result of credential.list as the wire protocol describes it: an array
\* of objects, each with a path string and, possibly, a type and a
\* description string.
IsCredentialList(j) ==
    /\ j.t = "arr"
    /\ \A i \in 1..Len(j.v) :
          /\ j.v[i].t = "obj"
          /\ "path" \in DOMAIN j.v[i].v
          /\ \A k \in DOMAIN j.v[i].v \cap {"path", "type", "description"} :
                j.v[i].v[k].t = "str"

\* C18: for a response without error payload whose result is a credential
\* list, List returns no error and one CredentialInfo per entry, in the
\* order of the entries and with their paths; for the empty list it returns
\* the empty sequence and no error.
C18_ListMirrorsResult ==
    (/\ apiOut # NoApiOut
     /\ apiIn.operation = "List"
     /\ apiIn.resp.Error = Nil
     /\ IsCredentialList(apiIn.resp.Result)) =>
       LET entries == apiIn.resp.Result.v IN
       /\ apiOut.returns
       /\ apiOut.Err = NoErr
       /\ Len(apiOut.Val.Creds) = Len(entries)
       /\ \A i \in 1..Len(entries) : apiOut.Val.Creds[i].Path = entries[i].v.path.v
       /\ entries = <<>> => apiOut.Val.Creds = <<>>

\* C18 witness: List has returned two entries of different paths.
C18_Witness ==
    /\ apiOut # NoApiOut
    /\ apiIn.operation = "List"
    /\ apiIn.resp.Error = Nil
    /\ IsCredentialList(apiIn.resp.Result)
    /\ Len(apiIn.resp.Result.v) = 2
    /\ apiOut.returns /\ apiOut.Err = NoErr
    /\ apiOut.Val.Creds[1].Path = "db/primary"
    /\ apiOut.Val.Creds[2].Path = "openai/api_key"

\* The private key of goroutine p is neither the hex text h nor one of the
\* bytes that h encodes.
KeyFree(h, p) ==
    /\ h # EncodeToString(<<PrivateKeyOf(p)>>)
    /\ \A i \in 1..Len(DecodeString(h)) : DecodeString(h)[i] # PrivateKeyOf(p)

\* C19: the signature in an auth.verify request is the signature, under the
\* caller's private key, of the hex-decoded challenge that the auth.challenge
\* call of the same Authenticate returned, so it verifies under the matching
\* public key; the two requests carry the agent name and, in auth.verify,
\* the hex signature, and never the private key.
C19_SignatureOverChallenge ==
    \A p \in Procs :
       (op[p] = "Authenticate" /\ InOperation(p)) =>
          /\ req[p].Method = "auth.challenge" =>
                req[p].Params = Obj([agent |-> Str(AgentName)])
          /\ req[p].Method = "auth.verify" =>
                LET c == DecodeString(ConsumedChallenge(p))
                    sig == req[p].Params.v.signature.v
                IN /\ DOMAIN req[p].Params.v = {"agent", "signature"}
                   /\ req[p].Params.v.agent = Str(AgentName)
                   /\ callRes[p].reqID = attempt[p].challengeReq
                   /\ DecodeStringOK(sig)
                   /\ KeyFree(sig, p)
                   /\ DecodeString(sig) = Sign(PrivateKeyOf(p), c)
                   /\ Verify(PublicKeyOf(PrivateKeyOf(p)), c, DecodeString(sig))

\* C19 witness: an auth.verify request with the signature of a challenge
\* that is not empty has been written.
C19_Witness ==
    \E p \in Procs :
       /\ op[p] = "Authenticate" /\ pc[p] = "rhdr"
       /\ req[p].Method = "auth.verify"
       /\ ConsumedChallenge(p) = ChallengeFor(attempt[p].challengeReq)
       /\ challengeBytes[p] # <<>>

\* C20: once Close has been called on a Vault, every later Store, Retrieve,
\* CheckPolicy and AuditLog on it returns an error that is not nil and makes
\* no call into the FFI layer, whatever was done with the Vault before.
C20_ClosedVaultRefuses ==
    (vret.op \in {"Store", "Retrieve", "CheckPolicy", "AuditLog"} /\ vret.afterClose) =>
       /\ ~vret.panics
       /\ vret.err # NoErr
       /\ vret.calls = <<>>
       /\ vret.bytes = <<>> /\ vret.str = ""

\* C20 witness: a Store on a Vault that was closed, while another Vault made
\* after it is still open, has returned.
C20_Witness ==
    /\ vret.op = "Store" /\ vret.afterClose
    /\ ffi[vret.v] = 1
    /\ \E j \in Vaults : j # vret.v /\ vault[j].made /\ vault[j].ptr # NilPtr

\* C21: Close can be called any number of times: the handle of a Vault is
\* freed once, by the first Close, later Close calls make no call into the
\* FFI layer and change nothing, and no operation on a Vault calls the FFI
\* layer with a handle that has been freed.
C21_FreedOnce ==
    /\ \A i \in Vaults :
          /\ ffi[i] <= 1
          /\ ffi[i] = (IF closeCalls[i] > 0 THEN 1 ELSE 0)
          /\ closeCalls[i] > 0 => vault[i].ptr = NilPtr
          /\ (vault[i].made /\ closeCalls[i] = 0) => vault[i].ptr = i
    /\ (vret.op = "Close" /\ vret.afterClose) => (vret.calls = <<>> /\ ~vret.panics)
    /\ (vret.op = "Close" /\ ~vret.afterClose) =>
          vret.calls = <<[fn |-> "sanctum_vault_free", handle |-> vret.v, freed |-> FALSE,
                          rc |-> "none"]>>
    /\ \A k \in 1..Len(vret.calls) : ~vret.calls[k].freed

\* C21 witness: Close has been called a second time on a Vault.
C21_Witness ==
    /\ vret.op = "Close" /\ vret.afterClose
    /\ closeCalls[vret.v] = 2 /\ ffi[vret.v] = 1

\* the sentinel errors of the binding that the claim names
ErrNotFound == Sentinel("sanctum: credential not found")
ErrPolicyDenied == Sentinel("sanctum: access denied")
\* the closed set of result codes other than OK
FailureCodes == ResultCodes \ {"OK", "42"}
\* the result code of the last call into the FFI layer that the operation made
LastCode == vret.calls[Len(vret.calls)].rc

\* C22: resultToError maps OK to no error and every other code to an error;
\* each code of the closed set has a sentinel of its own; a NOT_FOUND of the
\* FFI layer reaches the caller of Retrieve as ErrNotFound and an
\* ACCESS_DENIED reaches the caller of CheckPolicy as ErrAccessDenied.
C22_CodesToSentinels ==
    /\ resultToError("OK") = NoErr
    /\ \A c \in ResultCodes \ {"OK"} : resultToError(c) # NoErr
    /\ \A c \in FailureCodes : resultToError(c).type = "sentinel"
    /\ \A c, d \in FailureCodes : c # d => resultToError(c) # resultToError(d)
    /\ resultToError("NOT_FOUND") = ErrNotFound
    /\ resultToError("ACCESS_DENIED") = ErrPolicyDenied
    /\ (vret.op = "Retrieve" /\ vret.calls # <<>> /\ LastCode = "NOT_FOUND") =>
          vret.err = ErrNotFound
    /\ (vret.op = "CheckPolicy" /\ vret.calls # <<>> /\ LastCode = "ACCESS_DENIED") =>
          vret.err = ErrPolicyDenied

\* C22 witness: the second call of a Retrieve into the FFI layer answered
\* NOT_FOUND.
C22_Witness ==
    /\ vret.op = "Retrieve" /\ Len(vret.calls) = 2
    /\ LastCode = "NOT_FOUND" /\ vret.err = ErrNotFound

\* C23: an abort of a call at its deadline leaves the frame in progress
\* complete or untouched: a call that is about to write its length header
\* finds the bytes written so far ending with a complete frame, and a call
\* reading a length header finds a length header at the head of the bytes
\* that have arrived, on a connection that has not been closed.
C23_FrameBoundaries ==
    ~closed =>
       \A p \in Procs :
          /\ pc[p] = "whdr" => (out = <<>> \/ out[Len(out)].part = "pay")
          /\ (pc[p] = "rhdr" /\ inbuf # <<>>) => Head(inbuf).part = "hdr"

\* readFrame was given a stream that does not hold a frame it accepts: a
\* stream that ends early, a declared length above the maximum, a payload
\* that is no JSON text.
DecodingFails ==
    \/ Len(decIn.hdr) < 4
    \/ TooLarge(decIn.hdr)
    \/ decIn.body \in {"malformed", "short"}
    \/ Normalize(decIn.hdr) = <<>>

\* C24: every decoding failure of an incoming frame ends readFrame, and so
\* the call, with a protocol error and without a response.
C24_DecodeFailureIsProtocolError ==
    (decOut.stage = "done" /\ DecodingFails) =>
       /\ ~decOut.resp
       /\ decOut.err.type = "ProtocolError"

\* Every decoding failure ends readFrame with an error and without a
\* response.
C24_DecodeFailureIsError ==
    (decOut.stage = "done" /\ DecodingFails) =>
       /\ ~decOut.resp
       /\ decOut.err # NoErr
       /\ decOut.err.type \in {"ProtocolError", "fmt"}

\* the number of bytes d is above maxFrameSize
ExceedsMax(d) == Len(Normalize(d)) > 4 \/ TooLarge(Uint32(Normalize(d)))

\* C25: writeFrame never writes a frame whose declared length is above
\* 16,777,216, and for a request whose encoding is longer than that it
\* fails without writing any byte.
C25_OutgoingFrameBounded ==
    /\ \A k \in 1..Len(encOut.wire) :
          encOut.wire[k].part = "hdr" => ~TooLarge(encOut.wire[k].bytes)
    /\ (encOut.stage # "idle" /\ ExceedsMax(encIn.len)) =>
          (encOut.wire = <<>> /\ encOut.stage = "done" /\ encOut.err # NoErr)

\* Goroutine p is in Authenticate between the exchange of its auth.challenge
\* and that of its auth.verify.
BetweenChallengeAndVerify(p) ==
    op[p] = "Authenticate" /\ req[p].Method = "auth.verify" /\ pc[p] \in {"lock", "whdr"}

\* C26: the auth.challenge exchange and the auth.verify exchange of one
\* Authenticate are consecutive on the connection: while a goroutine is
\* between the two, no other goroutine has an exchange in progress.
C26_HandshakeConsecutive ==
    \A p, q \in Procs :
       (p # q /\ BetweenChallengeAndVerify(p)) => pc[q] \notin {"wpay", "rhdr", "rpay"}

\* The error of a read or write that the deadline of the connection ended.
IsTimeout(e) == e.type = "fmt" /\ e.inner = NetError("timeout")

\* C27: the deadline a call installs on the connection is removed on every
\* return path before the mutex is released: on an open connection no
\* deadline is installed while the mutex is free, the deadline installed
\* during an exchange is that of the call holding the mutex, and only a call
\* whose own deadline passed ends with a timeout.
C27_DeadlineCleared ==
    /\ [](~closed =>
            /\ mu = NoProc => connDeadline = NoProc
            /\ connDeadline # NoProc =>
                  (connDeadline = mu /\ ctx[mu] = "deadline"))
    /\ [][\A p \in Procs :
            (CallReturns(p) /\ IsTimeout(callRes'[p].Err)) =>
               (ctx[p] = "deadline" /\ ctxDone[p] /\ connDeadline = p)]_vars

\* C27 witness: a call ended at its deadline, and a call without a deadline
\* made after it is reading its response on the open connection.
C27_Witness ==
    \E p, q \in Procs :
       /\ pc[p] = "done" /\ IsTimeout(callRes[p].Err)
       /\ mu = q /\ ctx[q] = "none" /\ pc[q] = "rpay"
       /\ req[q].ID > callRes[p].reqID
       /\ ~closed /\ connDeadline = NoProc

\* Goroutine p is between the Lock of a call and its return.
HoldsSection(p) == pc[p] \in {"whdr", "wpay", "rhdr", "rpay"}

\* C28: every return of a call that took the mutex releases it: the mutex
\* is held only by a goroutine inside its exchange, it is free in the step
\* in which a call returns, whatever the call returns, and so a goroutine
\* waiting for it can take it whenever no exchange is in progress.
C28_SectionReleased ==
    /\ [](/\ mu # NoProc => HoldsSection(mu)
          /\ \A p \in Procs : HoldsSection(p) => mu = p
          /\ \A p \in Procs :
                (pc[p] = "lock" /\ \A q \in Procs : ~HoldsSection(q)) => ENABLED Lock(p))
    /\ [][\A p \in Procs : CallReturns(p) => mu' = NoProc]_vars

\* C28 witness: a call failed after it had taken the mutex, and a later
\* call of another goroutine holds the mutex.
C28_Witness ==
    \E p, q \in Procs :
       /\ pc[p] = "done" /\ callRes[p].Err # NoErr
       /\ callRes[p].reqID \in wireIDs
       /\ mu = q /\ HoldsSection(q)
       /\ req[q].ID > callRes[p].reqID

\* C29: Init, Open and Store return, with a Vault or an error, for every
\* passphrase and every secret, the empty ones included: none of them ends
\* in a run-time panic.
C29_NoAbort ==
    vret.op \in {"Init", "Open", "Store"} => ~vret.panics

====
